---------------------------- MODULE Spec2Model ----------------------------
(***************************************************************************)
(* Model of the npm download statistics merger (merge-alex-stats):         *)
(*   - the historical merge  updateHistoricalData                          *)
(*   - the week bucketing    getWeekKey / batchDatesByWeek                 *)
(*   - the per-package run   processPackage                                *)
(*   - the batch runner      main                                          *)
(*   - a second invocation of the script on the files the first one left   *)
(*                                                                         *)
(* JavaScript arrays are modelled as TLA+ sequences; a 0-based JavaScript  *)
(* index i is position i + 1 of the sequence.  Time stamps (Date.getTime)  *)
(* are counted in hours instead of milliseconds, which keeps every value   *)
(* the code computes in range and changes no comparison.                   *)
(***************************************************************************)
EXTENDS Integers, Sequences, FiniteSets, TLC

(***************************************************************************)
(* Bounds of the model.                                                    *)
(***************************************************************************)
MaxLen == 4         \* merges are offered while timestamps is shorter than this
MaxTime == 4        \* time stamps offered to a direct merge call: 1..MaxTime
MaxCount == 2       \* download counts offered to a direct merge call: 0..MaxCount

\* The version key tracked by direct merge calls (every version's array is
\* updated on its own, whatever the other keys hold).
Versions == {"v1"}

VARIABLES
    \* --- direct calls of updateHistoricalData
    series,       \* the HistoricalData object handed to updateHistoricalData
    prev,         \* history: series before the last merge call
    lastObs,      \* history: the arguments of the last merge call, or NoObs
    \* --- environment of a batch run
    tz,           \* offset of the process's local time zone from UTC, in hours
    seedDir,      \* data-dump-alex: NoDir, or file name -> content
    files,        \* data/<package>.json: "ENOENT", "corrupt", or a series
    files0,       \* history: files when the run started
    \* --- one processPackage call per package
    pc,           \* where each call stands
    dates,        \* const dates
    existingData, \* const existingData
    weekMap,      \* const weekMap
    weekKeys,     \* const weekKeys
    wi,           \* position of the outer loop in weekKeys (1-based)
    di,           \* position of the inner loop in weekDates (1-based)
    weeksAdded,   \* let weeksAdded
    log,          \* history: the reads, merges and writes of the call, in order
    \* --- main
    mainPc,       \* "running" until Promise.allSettled resolves, then "summary"
    successful,   \* const successful
    failed,       \* const failed
    earlier       \* history: how the calls of the earlier invocations ended

mergeVars == <<series, prev, lastObs>>
envVars == <<tz, seedDir, files, files0>>
procVars == <<pc, dates, existingData, weekMap, weekKeys, wi, di, weeksAdded, log>>
mainVars == <<mainPc, successful, failed, earlier>>
runVars == <<envVars, procVars, mainVars>>
vars == <<mergeVars, runVars>>

NoObs == [timestamp |-> 0, newDownloads |-> <<>>]

(***************************************************************************)
(* Array helpers with the semantics of the JavaScript built-ins.           *)
(***************************************************************************)

\* Array.prototype.findIndex with the predicate (value) => value >= timestamp:
\* the 0-based index of the first matching element, -1 when there is none.
findIndexStrict(timestamps, timestamp) ==
    LET hits == {i \in 1..Len(timestamps) : timestamps[i] > timestamp}
    IN  IF hits = {} THEN -1
        ELSE (CHOOSE i \in hits : \A j \in hits : i <= j) - 1

findIndex(timestamps, timestamp) ==
    LET hits == {i \in 1..Len(timestamps) : timestamps[i] >= timestamp}
    IN  IF hits = {} THEN -1
        ELSE (CHOOSE i \in hits : \A j \in hits : i <= j) - 1

\* The 0-based position Array.prototype.splice(start, ...) acts at: a negative
\* start counts from the end of the array (and is clamped at 0), a start past
\* the end is clamped at the length.
spliceStart(arr, start) ==
    IF start < 0
    THEN (IF Len(arr) + start < 0 THEN 0 ELSE Len(arr) + start)
    ELSE (IF start > Len(arr) THEN Len(arr) ELSE start)

\* arr.splice(start, 0, item): item inserted at the splice position.
splice(arr, start, item) ==
    LET k == spliceStart(arr, start)
    IN  SubSeq(arr, 1, k) \o <<item>> \o SubSeq(arr, k + 1, Len(arr))

\* new Array(n).fill(0)
zeros(n) == [i \in 1..n |-> 0]

(***************************************************************************)
(* updateHistoricalData(newDownloads, timestamp, data)                     *)
(* data (existingData) is [timestamps |-> sequence, downloads |-> function *)
(* from the known versions to their arrays]; newDownloads is a function    *)
(* from the observed versions to their counts.  Each version's array is    *)
(* touched independently of the others, so the iteration order of the two  *)
(* loops does not matter.                                                  *)
(***************************************************************************)

\* First loop, one version of newDownloads: a version that has no array yet
\* gets new Array(existingData.timestamps.length).fill(0) (timestamps already
\* holds the new time stamp); a known version gets count spliced in.
addNewCount(downloads, version, count, insertIndex, newLen) ==
    IF version \notin DOMAIN downloads
    THEN zeros(newLen)
    ELSE splice(downloads[version], insertIndex, count)

\* Second loop's test  !newDownloads[version] : true when the version is
\* missing from the observation and also when its count is 0.
noDownloads(newDownloads, version) ==
    version \notin DOMAIN newDownloads \/ newDownloads[version] = 0

updateHistoricalData(newDownloads, timestamp, data) ==
    LET insertIndex == findIndex(data.timestamps, timestamp)
    IN  IF insertIndex >= 0 /\ data.timestamps[insertIndex + 1] = timestamp
        THEN data
        ELSE
          LET ts1 == splice(data.timestamps, insertIndex, timestamp)
              old == data.downloads
              d1  == [v \in DOMAIN old \cup DOMAIN newDownloads |->
                        IF v \in DOMAIN newDownloads
                        THEN addNewCount(old, v, newDownloads[v], insertIndex, Len(ts1))
                        ELSE old[v]]
              d2  == [v \in DOMAIN d1 |->
                        IF noDownloads(newDownloads, v)
                        THEN splice(d1[v], insertIndex, 0)
                        ELSE d1[v]]
          IN  [timestamps |-> ts1, downloads |-> d2]

(***************************************************************************)
(* Series and observations offered to direct merge calls.                  *)
(***************************************************************************)
StrictlyIncreasing(s) == \A i, j \in 1..Len(s) : i < j => s[i] < s[j]

Aligned(d) ==
    \A v \in DOMAIN d.downloads : Len(d.downloads[v]) = Len(d.timestamps)

\* A series as the data model describes it.
ValidSeries(d) == StrictlyIncreasing(d.timestamps) /\ Aligned(d)

SeqsUpTo(S, n) == UNION {[1..k -> S] : k \in 0..n}

Observations ==
    {[timestamp |-> t, newDownloads |-> nd] :
        t \in 1..MaxTime,
        nd \in UNION {[D -> 0..MaxCount] : D \in SUBSET Versions}}

\* Starting series: every valid series of at most two time stamps, with any
\* known versions and counts.
StartSeries ==
    {[timestamps |-> ts, downloads |-> d] :
        ts \in SeqsUpTo(1..MaxTime, 2),
        d \in UNION {[D -> SeqsUpTo(0..MaxCount, 2)] : D \in SUBSET Versions}}

InitMerge ==
    /\ series \in {d \in StartSeries : ValidSeries(d)}
    /\ prev = series
    /\ lastObs = NoObs

\* One call of updateHistoricalData on the series.
Merge(obs) ==
    /\ Len(series.timestamps) < MaxLen
    /\ prev' = series
    /\ lastObs' = obs
    /\ series' = updateHistoricalData(obs.newDownloads, obs.timestamp, series)

(***************************************************************************)
(* Dates.  A seed file name "YYYY-MM-DD.json" is the triple <<Y, M, D>>;   *)
(* the order of the triples is the order of the strings under sort().  A   *)
(* Date value is its getTime(), in hours since 1970-01-01T00:00Z.          *)
(***************************************************************************)
HoursPerDay == 24

\* Days since the epoch of a civil date, and back (proleptic Gregorian
\* calendar, as the Date built-ins compute it).
DaysOfShifted(yy, mp, d) ==
    LET era == yy \div 400
        yoe == yy % 400
    IN  era * 146097 + yoe * 365 + yoe \div 4 - yoe \div 100
        + (153 * mp + 2) \div 5 + d - 1 - 719468

DaysFromCivil(y, m, d) ==
    DaysOfShifted(IF m <= 2 THEN y - 1 ELSE y, (m + 9) % 12, d)

CivilOfMonth(y, doy, mp) ==
    <<IF mp < 10 THEN y ELSE y + 1,
      IF mp < 10 THEN mp + 3 ELSE mp - 9,
      doy - (153 * mp + 2) \div 5 + 1>>

CivilOfDayOfYear(y, doy) == CivilOfMonth(y, doy, (5 * doy + 2) \div 153)

CivilOfYearOfEra(era, doe, yoe) ==
    CivilOfDayOfYear(yoe + era * 400,
                     doe - (365 * yoe + yoe \div 4 - yoe \div 100))

CivilOfEra(era, doe) ==
    CivilOfYearOfEra(era, doe,
        (doe - doe \div 1460 + doe \div 36524 - doe \div 146096) \div 365)

CivilFromDays(days) ==
    CivilOfEra((days + 719468) \div 146097, (days + 719468) % 146097)

\* The calendar of the months the seed files lie in, tabulated once.
CalendarDays == DaysFromCivil(2023, 12, 1) .. DaysFromCivil(2024, 1, 31)

CivilDate == [day \in CalendarDays |-> CivilFromDays(day)]

DayNumber ==
    [date \in {CivilDate[day] : day \in CalendarDays} |->
        DaysFromCivil(date[1], date[2], date[3])]

\* new Date(date.split(".")[0]): a date-only string is midnight UTC
parseDate(date) == DayNumber[date] * HoursPerDay

\* Date.prototype.getUTCDay: 0 is Sunday (1970-01-01 was a Thursday)
getUTCDay(t) == (t \div HoursPerDay + 4) % 7

\* Date.prototype.getUTCDate: the day of the month, in UTC
getUTCDate(t) == CivilDate[t \div HoursPerDay][3]

\* Date.prototype.setUTCDate(n): day n of the UTC month of t, at t's time of
\* day; n <= 0 counts back into the months before.
setUTCDate(t, n) ==
    LET c == CivilDate[t \div HoursPerDay]
    IN  (DayNumber[<<c[1], c[2], 1>>] + n - 1) * HoursPerDay + (t % HoursPerDay)

\* Date.prototype.toISOString().split('T')[0]: the UTC calendar date
toISODate(t) == CivilDate[t \div HoursPerDay]

\* onlyDay: midnight, in the process's LOCAL time zone, of the LOCAL calendar
\* day of date (getFullYear, getMonth, getDate and the Date constructor all
\* work in local time; local time is UTC + zone).
onlyDay(date, zone) ==
    ((date + zone) \div HoursPerDay) * HoursPerDay - zone

\* getWeekKey
getWeekKey(date, zone) ==
    LET dayOfWeek == getUTCDay(date)
        sunday    == setUTCDate(date, getUTCDate(date) - dayOfWeek)
    IN  toISODate(onlyDay(sunday, zone))

\* the order of Array.prototype.sort() on date strings
DateLess(a, b) ==
    \/ a[1] < b[1]
    \/ a[1] = b[1] /\ a[2] < b[2]
    \/ a[1] = b[1] /\ a[2] = b[2] /\ a[3] < b[3]

\* [...].sort() of a collection of distinct date strings: the one ascending
\* arrangement of them
sorted(S) ==
    CHOOSE s \in [1..Cardinality(S) -> S] :
        \A i, j \in 1..Cardinality(S) : i < j => DateLess(s[i], s[j])

Range(s) == {s[i] : i \in 1..Len(s)}

\* batchDatesByWeek: week key -> the dates of that week, sorted
batchDatesByWeek(ds, zone) ==
    LET keyOf(date) == getWeekKey(parseDate(date), zone)
        keys == {keyOf(date) : date \in Range(ds)}
    IN  [k \in keys |-> sorted({date \in Range(ds) : keyOf(date) = k})]

(***************************************************************************)
(* The environment of a batch run.                                         *)
(***************************************************************************)
\* PACKAGES, cut down to two names
Packages == {"A", "B"}

\* Local time zones the process may run in (hours east of UTC).
TZOffsets == {-5, 0, 2}

\* File names the seed folder may hold: Sunday 2023-12-31 and Monday
\* 2024-01-01 (one week, across the turn of the year) and Sunday 2024-01-07.
SeedPool == {<<2023, 12, 31>>, <<2024, 1, 1>>, <<2024, 1, 7>>}

EmptySeries == [timestamps |-> <<>>, downloads |-> << >>]

\* The per-version counts a snapshot carries for a package.
SeedDownloads(p) ==
    IF p = "A" THEN [v \in {"v1"} |-> 5]
    ELSE [v \in {"v1", "v2"} |-> IF v = "v1" THEN 0 ELSE 3]

\* What a snapshot holds under a package name: no entry, an entry without
\* downloads (offered for package A), or an entry with downloads.
SeedEntries(p) ==
    {[kind |-> "absent", downloads |-> << >>],
     [kind |-> "downloads", downloads |-> SeedDownloads(p)]}
    \cup (IF p = "A" THEN {[kind |-> "nodownloads", downloads |-> << >>]} ELSE {})

Snapshots ==
    {f \in [Packages -> UNION {SeedEntries(p) : p \in Packages}] :
        \A p \in Packages : f[p] \in SeedEntries(p)}

\* What reading a listed seed file gives: ENOENT, text that is not JSON, or a
\* snapshot.
SeedContents ==
    {[kind |-> "ENOENT", body |-> << >>], [kind |-> "corrupt", body |-> << >>]}
    \cup {[kind |-> "json", body |-> b] : b \in Snapshots}

SeedDirs ==
    {[exists |-> FALSE, entries |-> << >>]}
    \cup {[exists |-> TRUE, entries |-> e] :
            e \in UNION {[S -> SeedContents] : S \in SUBSET SeedPool}}

\* What data/<package>.json holds before the run: nothing, the empty series,
\* or a series with the observation of 2024-01-01.
ExistingFiles ==
    {[kind |-> "ENOENT", data |-> EmptySeries],
     [kind |-> "json", data |-> EmptySeries],
     [kind |-> "json",
      data |-> [timestamps |-> <<parseDate(<<2024, 1, 1>>)>>,
                downloads |-> [v \in {"v1"} |-> <<7>>]]]}

\* How writeFile(filePath, text) may end: the text is written; the file
\* cannot be opened (EACCES) and stays as it is; or the file is opened, which
\* truncates it (flag 'w'), and writing the text fails (ENOSPC), which leaves
\* text that is not JSON.
WriteOutcomes == {"ok", "EACCES", "ENOSPC"}

(***************************************************************************)
(* processPackage, one step per await.                                     *)
(***************************************************************************)
NoDate == <<0, 0, 0>>

Event(op, date) == [op |-> op, date |-> date]

\* the catch block of main's callback: the failure is recorded for this
\* package alone
catchFailureAll(p) == [q \in Packages |-> "Failed"]

catchFailure(p) == [pc EXCEPT ![p] = "Failed"]

\* the test of the loop body cut down to  data  alone
hasSnapshot(content, p) == content.kind = "json"

\* data && data[packageName] && data[packageName].downloads
hasDownloads(content, p) ==
    /\ content.kind = "json"
    /\ content.body[p].kind = "downloads"

\* const dates = await getSeedDates(); throws when the folder is missing
GetSeedDates(p) ==
    /\ pc[p] = "Start"
    /\ IF seedDir.exists
       THEN /\ dates' = [dates EXCEPT ![p] = sorted(DOMAIN seedDir.entries)]
            /\ pc' = [pc EXCEPT ![p] = "SeedsDiscovered"]
       ELSE /\ pc' = catchFailure(p)
            /\ UNCHANGED dates
    /\ UNCHANGED <<mergeVars, envVars, mainVars, existingData, weekMap,
                   weekKeys, wi, di, weeksAdded, log>>

\* readExistingData with a missing series file taken for the empty series
ReadExistingDataBootstrap(p) ==
    /\ pc[p] = "SeedsDiscovered"
    /\ IF files[p].kind \in {"json", "ENOENT"}
       THEN LET wm == batchDatesByWeek(dates[p], tz)
            IN  /\ existingData' = [existingData EXCEPT ![p] = files[p].data]
                /\ weekMap' = [weekMap EXCEPT ![p] = wm]
                /\ weekKeys' = [weekKeys EXCEPT ![p] = sorted(DOMAIN wm)]
                /\ wi' = [wi EXCEPT ![p] = 1]
                /\ di' = [di EXCEPT ![p] = 1]
                /\ pc' = [pc EXCEPT ![p] = "WeeksBucketed"]
                /\ log' = [log EXCEPT ![p] =
                             @ \o <<Event("load", NoDate), Event("bucket", NoDate)>>]
       ELSE /\ pc' = [pc EXCEPT ![p] = "Failed"]
            /\ log' = [log EXCEPT ![p] = Append(@, Event("load", NoDate))]
            /\ UNCHANGED <<existingData, weekMap, weekKeys, wi, di>>
    /\ UNCHANGED <<mergeVars, envVars, mainVars, dates, weeksAdded>>

\* await mkdir(...); const existingData = await readExistingData(filePath):
\* a missing file gives null and processPackage throws, a file that does not
\* parse throws.  Then, with no await in between,
\*   const weekMap = batchDatesByWeek(dates); let weeksAdded = 0;
\*   const weekKeys = Array.from(weekMap.keys()).sort();
ReadExistingData(p) ==
    /\ pc[p] = "SeedsDiscovered"
    /\ IF files[p].kind = "json"
       THEN LET wm == batchDatesByWeek(dates[p], tz)
            IN  /\ existingData' = [existingData EXCEPT ![p] = files[p].data]
                /\ weekMap' = [weekMap EXCEPT ![p] = wm]
                /\ weekKeys' = [weekKeys EXCEPT ![p] = sorted(DOMAIN wm)]
                /\ wi' = [wi EXCEPT ![p] = 1]
                /\ di' = [di EXCEPT ![p] = 1]
                /\ pc' = [pc EXCEPT ![p] = "WeeksBucketed"]
                /\ log' = [log EXCEPT ![p] =
                             @ \o <<Event("load", NoDate), Event("bucket", NoDate)>>]
       ELSE /\ pc' = catchFailure(p)
            /\ log' = [log EXCEPT ![p] = Append(@, Event("load", NoDate))]
            /\ UNCHANGED <<existingData, weekMap, weekKeys, wi, di>>
    /\ UNCHANGED <<mergeVars, envVars, mainVars, dates, weeksAdded>>

\* for (const weekKey of weekKeys): the loop has run through every week
loopDone(p) == wi[p] > Len(weekKeys[p])

\* the loop positions after a date that gave a merge: break, next week
afterMergeNoBreak(p) ==
    IF di[p] < Len(weekMap[p][weekKeys[p][wi[p]]])
    THEN <<wi[p], di[p] + 1>>
    ELSE <<wi[p] + 1, 1>>

afterMerge(p) == <<wi[p] + 1, 1>>

\* the loop positions after a date without data: the next date of the week,
\* or the next week when this was the last one
afterSkip(p) ==
    IF di[p] < Len(weekMap[p][weekKeys[p][wi[p]]])
    THEN <<wi[p], di[p] + 1>>
    ELSE <<wi[p] + 1, 1>>

\* readSeedData and the loop body, with the file written after each merge
ReadSeedDataWriting(p) ==
    /\ pc[p] = "WeeksBucketed"
    /\ wi[p] <= Len(weekKeys[p])
    /\ LET date    == weekMap[p][weekKeys[p][wi[p]]][di[p]]
           content == seedDir.entries[date]
       IN  IF content.kind = "corrupt"
           THEN /\ pc' = [pc EXCEPT ![p] = "Failed"]
                /\ log' = [log EXCEPT ![p] = Append(@, Event("read", date))]
                /\ UNCHANGED <<existingData, wi, di, weeksAdded, files>>
           ELSE IF content.kind = "json" /\ content.body[p].kind = "downloads"
           THEN /\ existingData' =
                     [existingData EXCEPT ![p] =
                        updateHistoricalData(content.body[p].downloads,
                                             parseDate(date), @)]
                /\ files' = [files EXCEPT ![p] =
                               [kind |-> "json", data |-> existingData'[p]]]
                /\ weeksAdded' = [weeksAdded EXCEPT ![p] = @ + 1]
                /\ wi' = [wi EXCEPT ![p] = @ + 1]
                /\ di' = [di EXCEPT ![p] = 1]
                /\ log' = [log EXCEPT ![p] =
                             @ \o <<Event("read", date), Event("merge", date),
                                    Event("write", NoDate)>>]
                /\ UNCHANGED pc
           ELSE /\ wi' = [wi EXCEPT ![p] = afterSkip(p)[1]]
                /\ di' = [di EXCEPT ![p] = afterSkip(p)[2]]
                /\ log' = [log EXCEPT ![p] = Append(@, Event("read", date))]
                /\ UNCHANGED <<pc, existingData, weeksAdded, files>>
    /\ UNCHANGED <<mergeVars, tz, seedDir, files0, mainVars, dates, weekMap,
                   weekKeys>>

\* const data = await readSeedData(date), and what the loop body does with it
\* before the next await
ReadSeedData(p) ==
    /\ pc[p] = "WeeksBucketed"
    /\ ~loopDone(p)
    /\ LET date    == weekMap[p][weekKeys[p][wi[p]]][di[p]]
           content == seedDir.entries[date]
       IN  IF content.kind = "corrupt"
           THEN /\ pc' = catchFailure(p)
                /\ log' = [log EXCEPT ![p] = Append(@, Event("read", date))]
                /\ UNCHANGED <<existingData, wi, di, weeksAdded>>
           ELSE IF hasDownloads(content, p)
           THEN /\ existingData' =
                     [existingData EXCEPT ![p] =
                        updateHistoricalData(content.body[p].downloads,
                                             parseDate(date), @)]
                /\ weeksAdded' = [weeksAdded EXCEPT ![p] = @ + 1]
                /\ wi' = [wi EXCEPT ![p] = afterMerge(p)[1]]
                /\ di' = [di EXCEPT ![p] = afterMerge(p)[2]]
                /\ log' = [log EXCEPT ![p] =
                             @ \o <<Event("read", date), Event("merge", date)>>]
                /\ UNCHANGED pc
           ELSE /\ wi' = [wi EXCEPT ![p] = afterSkip(p)[1]]
                /\ di' = [di EXCEPT ![p] = afterSkip(p)[2]]
                /\ log' = [log EXCEPT ![p] = Append(@, Event("read", date))]
                /\ UNCHANGED <<pc, existingData, weeksAdded>>
    /\ UNCHANGED <<mergeVars, envVars, mainVars, dates, weekMap, weekKeys>>

\* writeFile with one file path for all packages
WriteFileShared(p) ==
    /\ pc[p] = "WeeksBucketed"
    /\ wi[p] > Len(weekKeys[p])
    /\ files' = [q \in Packages |-> [kind |-> "json", data |-> existingData[p]]]
    /\ log' = [log EXCEPT ![p] = Append(@, Event("write", NoDate))]
    /\ pc' = [pc EXCEPT ![p] = "Persisted"]
    /\ UNCHANGED <<mergeVars, tz, seedDir, files0, mainVars, dates,
                   existingData, weekMap, weekKeys, wi, di, weeksAdded>>

\* await writeFile(filePath, JSON.stringify(existingData))
WriteFile(p) ==
    /\ pc[p] = "WeeksBucketed"
    /\ loopDone(p)
    /\ \E outcome \in WriteOutcomes :
         IF outcome = "ok"
         THEN /\ files' = [files EXCEPT ![p] =
                             [kind |-> "json", data |-> existingData[p]]]
              /\ log' = [log EXCEPT ![p] = Append(@, Event("write", NoDate))]
              /\ pc' = [pc EXCEPT ![p] = "Persisted"]
         ELSE /\ files' = IF outcome = "ENOSPC"
                          THEN [files EXCEPT ![p] =
                                  [kind |-> "corrupt", data |-> EmptySeries]]
                          ELSE files
              /\ log' = [log EXCEPT ![p] = Append(@, Event(outcome, NoDate))]
              /\ pc' = catchFailure(p)
    /\ UNCHANGED <<mergeVars, tz, seedDir, files0, mainVars, dates,
                   existingData, weekMap, weekKeys, wi, di, weeksAdded>>

\* console.log(...); return { package: packageName, success: true }
Finish(p) ==
    /\ pc[p] = "Persisted"
    /\ pc' = [pc EXCEPT ![p] = "Done"]
    /\ UNCHANGED <<mergeVars, envVars, mainVars, dates, existingData, weekMap,
                   weekKeys, wi, di, weeksAdded, log>>

Step(p) ==
    \/ GetSeedDates(p)
    \/ ReadExistingData(p)
    \/ ReadSeedData(p)
    \/ WriteFile(p)
    \/ Finish(p)

(***************************************************************************)
(* main: the summary, once every callback has settled.                     *)
(***************************************************************************)
\* every callback counts as settled from the moment it is launched
Launched(p) == p \in Packages

Settled(p) == pc[p] \in {"Done", "Failed"}

\* the summary counting every fulfilled callback, whatever its success flag
SummaryFulfilled ==
    /\ mainPc = "running"
    /\ \A p \in Packages : Settled(p)
    /\ mainPc' = "summary"
    /\ successful' = Cardinality({p \in Packages : Settled(p)})
    /\ failed' = Cardinality(Packages) - successful'
    /\ UNCHANGED <<mergeVars, envVars, procVars, earlier>>

Summary ==
    /\ mainPc = "running"
    /\ \A p \in Packages : Settled(p)
    /\ mainPc' = "summary"
    /\ successful' = Cardinality({p \in Packages : pc[p] = "Done"})
    /\ failed' = Cardinality(Packages) - successful'
    /\ UNCHANGED <<mergeVars, envVars, procVars, earlier>>

\* main(), called again by the next invocation of the script on the files
\* the invocation before left (modelled for one further invocation)
Reinvoke ==
    /\ mainPc = "summary"
    /\ earlier = << >>
    /\ earlier' = <<pc>>
    /\ files0' = files
    /\ pc' = [p \in Packages |-> "Start"]
    /\ dates' = [p \in Packages |-> << >>]
    /\ existingData' = [p \in Packages |-> EmptySeries]
    /\ weekMap' = [p \in Packages |-> << >>]
    /\ weekKeys' = [p \in Packages |-> << >>]
    /\ wi' = [p \in Packages |-> 0]
    /\ di' = [p \in Packages |-> 0]
    /\ weeksAdded' = [p \in Packages |-> 0]
    /\ log' = [p \in Packages |-> << >>]
    /\ mainPc' = "running"
    /\ successful' = 0
    /\ failed' = 0
    /\ UNCHANGED <<mergeVars, tz, seedDir, files>>

(***************************************************************************)
(* The specifications.                                                     *)
(***************************************************************************)
\* the variables of a batch run, before it starts
RunStart ==
    /\ files0 = files
    /\ pc = [p \in Packages |-> "Start"]
    /\ dates = [p \in Packages |-> << >>]
    /\ existingData = [p \in Packages |-> EmptySeries]
    /\ weekMap = [p \in Packages |-> << >>]
    /\ weekKeys = [p \in Packages |-> << >>]
    /\ wi = [p \in Packages |-> 0]
    /\ di = [p \in Packages |-> 0]
    /\ weeksAdded = [p \in Packages |-> 0]
    /\ log = [p \in Packages |-> << >>]
    /\ mainPc = "running"
    /\ successful = 0
    /\ failed = 0
    /\ earlier = << >>

\* Direct merge calls on one series: no batch run takes place.
Init ==
    /\ InitMerge
    /\ tz = 0
    /\ seedDir = [exists |-> FALSE, entries |-> << >>]
    /\ files = [p \in Packages |-> [kind |-> "ENOENT", data |-> EmptySeries]]
    /\ RunStart

Next == \E obs \in Observations : Merge(obs) /\ UNCHANGED runVars

Spec == Init /\ [][Next]_vars

\* One batch run, the package calls interleaved at their awaits.
InitRun ==
    /\ series = EmptySeries
    /\ prev = EmptySeries
    /\ lastObs = NoObs
    /\ tz \in TZOffsets
    /\ seedDir \in SeedDirs
    /\ files \in [Packages -> ExistingFiles]
    /\ RunStart

NextRun ==
    \/ \E p \in Packages : Step(p)
    \/ Summary

SpecRun == InitRun /\ [][NextRun]_vars

\* Two invocations of the script one after the other, the process in UTC as
\* on the runner of the collection workflow.
InitRerun ==
    /\ InitRun
    /\ tz = 0

NextRerun ==
    \/ NextRun
    \/ Reinvoke

SpecRerun == InitRerun /\ [][NextRerun]_vars

\* One batch run in which every await returns: a call that can take a step
\* takes it, and main goes on once Promise.allSettled resolves.  The process
\* runs in UTC and the seed folder holds up to two files.
InitLive ==
    /\ InitRun
    /\ tz = 0
    /\ \E d \in SeedPool : d \notin DOMAIN seedDir.entries

SpecLive ==
    /\ InitLive
    /\ [][NextRun]_vars
    /\ \A p \in Packages : WF_vars(Step(p))
    /\ WF_vars(Summary)

(***************************************************************************)
(* Properties of the merge (specification Spec).                           *)
(***************************************************************************)
Called == lastObs # NoObs

\* the last merge call put its time stamp into the series
Inserted == Called /\ series.timestamps # prev.timestamps

\* s with x inserted so that it stands at 0-based index k
InsertAt(s, k, x) == SubSeq(s, 1, k) \o <<x>> \o SubSeq(s, k + 1, Len(s))

\* C1: starting from a series with strictly increasing time stamps, the time
\* stamps are strictly increasing (so without duplicates) after every sequence
\* of merge calls.
C1_SortedOrder == StrictlyIncreasing(series.timestamps)

\* C2: starting from an index-aligned series, after every merge call every
\* version's array is as long as timestamps.
C2_IndexAlignment == Aligned(series)

\* C3: a merge of a version V the series does not know yet, with count C, at
\* a time stamp larger than all N existing ones, leaves downloads[V] with N
\* zeros followed by C.
C3_Backfill ==
    \A v \in DOMAIN lastObs.newDownloads :
        (/\ Called
         /\ v \notin DOMAIN prev.downloads
         /\ \A i \in 1..Len(prev.timestamps) :
               prev.timestamps[i] < lastObs.timestamp)
        => /\ v \in DOMAIN series.downloads
           /\ series.downloads[v] =
                zeros(Len(prev.timestamps)) \o <<lastObs.newDownloads[v]>>

\* C4: merging an observation a second time, right after merging it, gives
\* the series the first merge gave; checked for every observation on every
\* series the merge calls reach.
C4_Idempotence ==
    \A obs \in Observations :
        LET once == updateHistoricalData(obs.newDownloads, obs.timestamp, series)
        IN  updateHistoricalData(obs.newDownloads, obs.timestamp, once) = once

\* a merge call has inserted its time stamp, and repeating it changes nothing
C4_Witness ==
    /\ Inserted
    /\ DOMAIN lastObs.newDownloads # {}
    /\ prev.timestamps # << >>
    /\ updateHistoricalData(lastObs.newDownloads, lastObs.timestamp, series) = series

\* C5: when a merge inserts a time stamp and the observation omits a version
\* V the series knows, downloads[V] afterwards is downloads[V] before with
\* one 0 inserted at the index the new time stamp has in timestamps.
C5_ZeroFill ==
    Inserted =>
        \A v \in DOMAIN prev.downloads \ DOMAIN lastObs.newDownloads :
            \E k \in 0..Len(prev.timestamps) :
                /\ series.timestamps = InsertAt(prev.timestamps, k, lastObs.timestamp)
                /\ k <= Len(prev.downloads[v])
                /\ series.downloads[v] = InsertAt(prev.downloads[v], k, 0)

(***************************************************************************)
(* Properties of a batch run (specification SpecRun).                      *)
(***************************************************************************)
Loaded(p) == pc[p] \in {"WeeksBucketed", "Persisted", "Done"}

Completed(p) == pc[p] \in {"Persisted", "Done"}

\* 1-based position of the first date of a week that has download data for
\* p, 0 when the week has none
FirstAvailable(p, weekDates) ==
    LET hits == {i \in 1..Len(weekDates) :
                    hasDownloads(seedDir.entries[weekDates[i]], p)}
    IN  IF hits = {} THEN 0 ELSE CHOOSE i \in hits : \A j \in hits : i <= j

\* the reads and the merge a week is to give: its dates up to the first one
\* with data, that one merged
WeekEvents(p, weekDates) ==
    LET fa == FirstAvailable(p, weekDates)
        n  == IF fa = 0 THEN Len(weekDates) ELSE fa
    IN  [i \in 1..n |-> Event("read", weekDates[i])]
        \o (IF fa = 0 THEN << >> ELSE <<Event("merge", weekDates[fa])>>)

\* ... and the weeks 1..w one after the other
RECURSIVE LoopEvents(_, _)
LoopEvents(p, w) ==
    IF w = 0 THEN << >>
    ELSE LoopEvents(p, w - 1) \o WeekEvents(p, weekMap[p][weekKeys[p][w]])

\* the series the weeks 1..w are to give: the loaded one with the first
\* available date of each week merged, in the order of the weeks
RECURSIVE LoopSeries(_, _)
LoopSeries(p, w) ==
    IF w = 0 THEN files0[p].data
    ELSE LET weekDates == weekMap[p][weekKeys[p][w]]
             fa == FirstAvailable(p, weekDates)
             before == LoopSeries(p, w - 1)
         IN  IF fa = 0 THEN before
             ELSE updateHistoricalData(
                     seedDir.entries[weekDates[fa]].body[p].downloads,
                     parseDate(weekDates[fa]), before)

\* the reads and merges of the log
LoopLog(p) == SelectSeq(log[p], LAMBDA e : e.op \in {"read", "merge"})

CountOf(p, op) == Len(SelectSeq(log[p], LAMBDA e : e.op = op))

\* C6: with the empty series loaded and exactly one seed date that has data
\* for the package, the persisted series has that date's time stamp alone and,
\* for every version of the observation, the observed count alone.
C6_EndToEnd ==
    \A p \in Packages :
        LET withData == {d \in DOMAIN seedDir.entries :
                            hasDownloads(seedDir.entries[d], p)}
        IN  (/\ Completed(p)
             /\ files0[p] = [kind |-> "json", data |-> EmptySeries]
             /\ Cardinality(withData) = 1)
            => LET d  == CHOOSE x \in withData : TRUE
                   nd == seedDir.entries[d].body[p].downloads
               IN  /\ files[p].kind = "json"
                   /\ files[p].data.timestamps = <<parseDate(d)>>
                   /\ \A v \in DOMAIN nd :
                        /\ v \in DOMAIN files[p].data.downloads
                        /\ files[p].data.downloads[v] = <<nd[v]>>

\* C7: in every week bucket the dates are read in ascending order up to the
\* first one with data for the package, that one is merged, the dates after
\* it are neither read nor merged, and the dates before it leave the series
\* as it was.
C7_FirstAvailableDay ==
    \A p \in Packages :
        Loaded(p) =>
            LET n       == Len(weekKeys[p])
                doneW   == IF wi[p] > n THEN n ELSE wi[p] - 1
                current == IF wi[p] > n THEN << >>
                           ELSE SubSeq(weekMap[p][weekKeys[p][wi[p]]], 1, di[p] - 1)
            IN  /\ \A i \in 1..Len(current) :
                      ~hasDownloads(seedDir.entries[current[i]], p)
                /\ LoopLog(p) = LoopEvents(p, doneW)
                                \o [i \in 1..Len(current) |-> Event("read", current[i])]
                /\ existingData[p] = LoopSeries(p, doneW)

\* a run is through a week whose two dates both have data: the first was
\* merged, the second never read
C7_Witness ==
    \E p \in Packages :
        /\ pc[p] = "Done"
        /\ \E k \in DOMAIN weekMap[p] :
            /\ Len(weekMap[p][k]) = 2
            /\ hasDownloads(seedDir.entries[weekMap[p][k][1]], p)
            /\ hasDownloads(seedDir.entries[weekMap[p][k][2]], p)
            /\ \E i \in 1..Len(log[p]) : log[p][i] = Event("merge", weekMap[p][k][1])
            /\ \A i \in 1..Len(log[p]) : log[p][i].date # weekMap[p][k][2]

\* the UTC Sunday on or before a date
UTCSunday(date) ==
    LET day == DayNumber[date]
    IN  CivilDate[day - ((day + 4) % 7)]

\* C8: every date is in exactly one bucket, the bucket's key is the UTC
\* Sunday on or before the date, two dates share a bucket exactly when they
\* have the same UTC Sunday, the dates of a bucket ascend, and the week keys
\* are processed in ascending order.
C8_WeekBucketing ==
    \A p \in Packages :
        Loaded(p) =>
            LET wm == weekMap[p]
            IN  /\ \A d \in Range(dates[p]) :
                     /\ Cardinality({k \in DOMAIN wm : d \in Range(wm[k])}) = 1
                     /\ UTCSunday(d) \in DOMAIN wm
                     /\ d \in Range(wm[UTCSunday(d)])
                /\ \A k \in DOMAIN wm :
                     /\ wm[k] # << >>
                     /\ Range(wm[k]) \subseteq Range(dates[p])
                     /\ \A i, j \in 1..Len(wm[k]) :
                          i < j => DateLess(wm[k][i], wm[k][j])
                /\ \A d, e \in Range(dates[p]) :
                     (\E k \in DOMAIN wm : {d, e} \subseteq Range(wm[k]))
                     <=> UTCSunday(d) = UTCSunday(e)
                /\ Range(weekKeys[p]) = DOMAIN wm
                /\ \A i, j \in 1..Len(weekKeys[p]) :
                     i < j => DateLess(weekKeys[p][i], weekKeys[p][j])

\* the call of package p has failed at its write
WriteFailed(p) ==
    \E i \in 1..Len(log[p]) : log[p][i].op \in WriteOutcomes \ {"ok"}

\* the inputs of package p are sound: the seed folder and the package's
\* series exist, every seed file the scan of p reaches parses, and the
\* series file can be written
ValidFor(p) ==
    /\ seedDir.exists
    /\ files0[p].kind = "json"
    /\ ~WriteFailed(p)
    /\ LET wm == batchDatesByWeek(sorted(DOMAIN seedDir.entries), tz)
       IN  \A k \in DOMAIN wm :
             LET fa == FirstAvailable(p, wm[k])
                 n  == IF fa = 0 THEN Len(wm[k]) ELSE fa
             IN  \A i \in 1..n : seedDir.entries[wm[k][i]].kind # "corrupt"

\* C9: once a package has failed, every other package whose inputs are sound
\* is not failed, has a step to take until it is done, and has its updated
\* series persisted when the batch is through.
C9_Isolation ==
    \A p, q \in Packages :
        (p # q /\ pc[q] = "Failed" /\ ValidFor(p)) =>
            /\ pc[p] # "Failed"
            /\ pc[p] # "Done" => ENABLED Step(p)
            /\ mainPc = "summary" =>
                 /\ pc[p] = "Done"
                 /\ CountOf(p, "write") = 1
                 /\ files[p] = [kind |-> "json",
                                data |-> LoopSeries(p, Len(weekKeys[p]))]

\* the batch is through, A failed on a seed file that does not parse, and B's
\* series was updated and persisted
C9_Witness ==
    /\ mainPc = "summary"
    /\ pc["A"] = "Failed"
    /\ log["A"] # << >>
    /\ LET last == log["A"][Len(log["A"])]
       IN  /\ last.op = "read"
           /\ seedDir.entries[last.date].kind = "corrupt"
    /\ pc["B"] = "Done"
    /\ files["B"] # files0["B"]

\* C10: a run that loaded the series and did not fail writes the file once,
\* as its last step after every week is through, with the series the merges
\* left; until then the file is not written.
C10_SingleWrite ==
    \A p \in Packages :
        /\ pc[p] = "WeeksBucketed" =>
             /\ CountOf(p, "write") = 0
             /\ files[p] = files0[p]
        /\ Completed(p) =>
             /\ CountOf(p, "write") = 1
             /\ log[p][Len(log[p])].op = "write"
             /\ wi[p] = Len(weekKeys[p]) + 1
             /\ files[p] = [kind |-> "json", data |-> existingData[p]]

\* a run that merged two weeks and then wrote
C10_Witness ==
    \E p \in Packages :
        /\ pc[p] = "Done"
        /\ CountOf(p, "merge") = 2
        /\ CountOf(p, "write") = 1

\* C11: when the seed folder does not exist, or the package has no series
\* file, the call never gets past loading: it reads no seed file, merges
\* nothing, holds no series in memory, writes nothing and leaves the
\* package's file as it was (absent when it was absent), and it is Failed when
\* the batch is through.
C11_FatalPreconditions ==
    \A p \in Packages :
        (~seedDir.exists \/ files0[p].kind = "ENOENT") =>
            /\ pc[p] \in {"Start", "SeedsDiscovered", "Failed"}
            /\ ~seedDir.exists => pc[p] \in {"Start", "Failed"}
            /\ \A i \in 1..Len(log[p]) : log[p][i].op = "load"
            /\ existingData[p] = EmptySeries
            /\ weekKeys[p] = << >>
            /\ files[p] = files0[p]
            /\ mainPc = "summary" => pc[p] = "Failed"

\* a call has failed for want of the series file, with the seed folder
\* holding data for the package
C11_Witness ==
    \E p \in Packages :
        /\ pc[p] = "Failed"
        /\ seedDir.exists
        /\ files0[p].kind = "ENOENT"
        /\ \E d \in DOMAIN seedDir.entries : hasDownloads(seedDir.entries[d], p)
        /\ mainPc = "summary"

\* a seed file that is missing, or a snapshot without an entry or without
\* downloads for p
SkipContent(content, p) ==
    \/ content.kind = "ENOENT"
    \/ content.kind = "json" /\ content.body[p].kind \in {"absent", "nodownloads"}

DataContent(content, p) ==
    content.kind = "json" /\ content.body[p].kind = "downloads"

\* the step of p's call that reads a date without data: nothing but the loop
\* position and the log changes, and the position moves to the next date of
\* the week, or to the next week after the week's last date
C12_SkipStep ==
    \A p \in Packages :
        (/\ pc[p] = "WeeksBucketed"
         /\ wi[p] <= Len(weekKeys[p])
         /\ log'[p] # log[p]
         /\ SkipContent(seedDir.entries[weekMap[p][weekKeys[p][wi[p]]][di[p]]], p))
        => LET weekDates == weekMap[p][weekKeys[p][wi[p]]]
           IN  /\ existingData'[p] = existingData[p]
               /\ weeksAdded'[p] = weeksAdded[p]
               /\ files' = files
               /\ pc'[p] = "WeeksBucketed"
               /\ log'[p] = Append(log[p], Event("read", weekDates[di[p]]))
               /\ IF di[p] < Len(weekDates)
                  THEN wi'[p] = wi[p] /\ di'[p] = di[p] + 1
                  ELSE wi'[p] = wi[p] + 1 /\ di'[p] = 1

\* what the skips leave of a call: a failure has another cause, only dates
\* with data are merged, one for each week that has data, a completed call
\* has added the time stamps of these dates and no other, and a call whose
\* seed files are all missing or parse is a success of the summary
C12_SkipOutcome ==
    \A p \in Packages :
        LET merged == {log[p][i].date : i \in {j \in 1..Len(log[p]) : log[p][j].op = "merge"}}
            weeksWithData ==
                {k \in DOMAIN weekMap[p] :
                    \E i \in 1..Len(weekMap[p][k]) :
                        DataContent(seedDir.entries[weekMap[p][k][i]], p)}
        IN  /\ pc[p] = "Failed" =>
                 \/ ~seedDir.exists
                 \/ files0[p].kind # "json"
                 \/ /\ log[p] # << >>
                    /\ LET last == log[p][Len(log[p])]
                       IN  \/ last.op \in WriteOutcomes \ {"ok"}
                           \/ /\ last.op = "read"
                              /\ seedDir.entries[last.date].kind = "corrupt"
            /\ \A d \in merged : DataContent(seedDir.entries[d], p)
            /\ Completed(p) =>
                 /\ Cardinality(merged) = Cardinality(weeksWithData)
                 /\ weeksAdded[p] = Cardinality(weeksWithData)
                 /\ Range(files[p].data.timestamps) =
                      Range(files0[p].data.timestamps) \cup {parseDate(d) : d \in merged}
            /\ (/\ mainPc = "summary"
                /\ seedDir.exists
                /\ files0[p].kind = "json"
                /\ ~WriteFailed(p)
                /\ \A d \in DOMAIN seedDir.entries : seedDir.entries[d].kind # "corrupt")
               => /\ pc[p] = "Done"
                  /\ successful >= 1

\* C12: a date whose seed file is missing, or whose snapshot has no entry or
\* no downloads for the package, changes nothing in the series; the scan goes
\* on with the next date of the week and then the next week; the call still
\* persists and counts as a success; a week without data adds no time stamp.
C12_SkipNotError == [][C12_SkipStep]_vars /\ []C12_SkipOutcome

\* a call is done that met a missing seed file and a snapshot without entry
\* in a week without data, and merged the other week
C12_Witness ==
    \E p \in Packages :
        /\ pc[p] = "Done"
        /\ mainPc = "summary"
        /\ Len(weekKeys[p]) = 2
        /\ CountOf(p, "merge") = 1
        /\ \E i \in 1..Len(log[p]) :
              /\ log[p][i].op = "read"
              /\ seedDir.entries[log[p][i].date].kind = "ENOENT"
        /\ \E i \in 1..Len(log[p]) :
              /\ log[p][i].op = "read"
              /\ seedDir.entries[log[p][i].date].kind = "json"
              /\ seedDir.entries[log[p][i].date].body[p].kind = "absent"

(***************************************************************************)
(* Further properties of the merge (specification Spec).                   *)
(***************************************************************************)
\* C13: a merge of an observation whose time stamp is already in timestamps
\* leaves the series as it is, whatever counts it carries, and no time stamp
\* occurs twice in the series.
C13_KnownTimestampNoOp ==
    /\ (Called /\ lastObs.timestamp \in Range(prev.timestamps)) => series = prev
    /\ \A i, j \in 1..Len(series.timestamps) :
          i # j => series.timestamps[i] # series.timestamps[j]

\* 1-based position of x in a sequence s that holds it once
IndexOf(s, x) == CHOOSE i \in 1..Len(s) : s[i] = x

\* C14: after a merge that inserts time stamp t into a valid series, every
\* version the observation carries and the series knew has the observed count
\* (0 included) at the index of t, and every count the series held stands at
\* the index its time stamp has now.
C14_ValueAlignment ==
    (Inserted /\ ValidSeries(prev)) =>
        /\ \A v \in DOMAIN lastObs.newDownloads \cap DOMAIN prev.downloads :
              LET k == IndexOf(series.timestamps, lastObs.timestamp)
              IN  /\ k <= Len(series.downloads[v])
                  /\ series.downloads[v][k] = lastObs.newDownloads[v]
        /\ \A w \in DOMAIN prev.downloads :
              \A i \in 1..Len(prev.timestamps) :
                  LET j == IndexOf(series.timestamps, prev.timestamps[i])
                  IN  /\ j <= Len(series.downloads[w])
                      /\ series.downloads[w][j] = prev.downloads[w][i]

(***************************************************************************)
(* Further properties of a batch run (specification SpecRun).              *)
(***************************************************************************)
\* C15: a call that has failed, at whatever point, has written nothing, and
\* the package's series file holds what it held before the run.
C15_UnchangedOnFailure ==
    \A p \in Packages :
        pc[p] = "Failed" =>
            /\ CountOf(p, "write") = 0
            /\ files[p] = files0[p]

\* the series a call of p gives when it runs on its own: the package's file
\* with, week after week of the seed folder, the first date that has data
\* for p merged
RECURSIVE AloneLoop(_, _, _, _)
AloneLoop(p, wm, keys, w) ==
    IF w = 0 THEN files0[p].data
    ELSE LET weekDates == wm[keys[w]]
             hits == {i \in 1..Len(weekDates) :
                        DataContent(seedDir.entries[weekDates[i]], p)}
             before == AloneLoop(p, wm, keys, w - 1)
         IN  IF hits = {} THEN before
             ELSE LET d == weekDates[CHOOSE i \in hits : \A j \in hits : i <= j]
                  IN  updateHistoricalData(seedDir.entries[d].body[p].downloads,
                                           parseDate(d), before)

AloneSeries(p) ==
    LET wm == batchDatesByWeek(sorted(DOMAIN seedDir.entries), tz)
    IN  AloneLoop(p, wm, sorted(DOMAIN wm), Cardinality(DOMAIN wm))

\* the call of p has taken the step
Moved(p) ==
    <<pc[p], dates[p], wi[p], di[p], log[p]>>' # <<pc[p], dates[p], wi[p], di[p], log[p]>>

\* a step of one call leaves the in-memory series, the file and the locals
\* of every other call as they are
C16_OwnStateOnly ==
    \A p, q \in Packages :
        (p # q /\ Moved(p)) =>
            /\ existingData'[q] = existingData[q]
            /\ files'[q] = files[q]
            /\ <<pc[q], dates[q], weekMap[q], weekKeys[q], wi[q], di[q],
                  weeksAdded[q], log[q]>>'
               = <<pc[q], dates[q], weekMap[q], weekKeys[q], wi[q], di[q],
                   weeksAdded[q], log[q]>>

\* in every interleaving the series a call persists is the one the call gives
\* on its own
C16_SameAsAlone ==
    \A p \in Packages :
        Completed(p) => files[p] = [kind |-> "json", data |-> AloneSeries(p)]

\* C16: with the calls of all packages interleaved at every await, no call
\* touches the in-memory series or the series file of another, and the series
\* each call persists is the one it gives when it runs alone.
C16_InterleavingIndependence == [][C16_OwnStateOnly]_vars /\ []C16_SameAsAlone

\* A has persisted its updated series while B, in the middle of its week loop,
\* holds a merged series of its own in memory
C16_Witness ==
    /\ pc["A"] = "Done"
    /\ files["A"] # files0["A"]
    /\ pc["B"] = "WeeksBucketed"
    /\ wi["B"] <= Len(weekKeys["B"])
    /\ CountOf("B", "merge") = 1
    /\ existingData["B"] # existingData["A"]
    /\ files["B"] = files0["B"]

\* the steps of a call come in the order Start, SeedsDiscovered, (series
\* loaded, then) WeeksBucketed, the week loop going forward date by date and
\* week by week, Persisted once the loop is through, Done; Failed is entered
\* from a state before Persisted; Done and Failed are left no more
C17_Order ==
    \A p \in Packages :
        /\ pc[p] = "Start" => pc'[p] \in {"Start", "SeedsDiscovered", "Failed"}
        /\ pc[p] = "SeedsDiscovered" =>
              \/ pc'[p] \in {"SeedsDiscovered", "Failed"}
              \/ /\ pc'[p] = "WeeksBucketed"
                 /\ log'[p] = <<Event("load", NoDate), Event("bucket", NoDate)>>
                 /\ wi'[p] = 1 /\ di'[p] = 1
        /\ pc[p] = "WeeksBucketed" =>
              \/ pc'[p] = "Failed"
              \/ pc'[p] = "WeeksBucketed" /\ UNCHANGED <<wi[p], di[p]>>
              \/ /\ pc'[p] = "WeeksBucketed"
                 /\ wi[p] <= Len(weekKeys[p])
                 /\ \/ wi'[p] = wi[p] /\ di'[p] = di[p] + 1
                    \/ wi'[p] = wi[p] + 1 /\ di'[p] = 1
              \/ /\ pc'[p] = "Persisted"
                 /\ wi[p] = Len(weekKeys[p]) + 1
        /\ pc[p] = "Persisted" => pc'[p] \in {"Persisted", "Done"}
        /\ pc[p] = "Done" => pc'[p] = "Done"
        /\ pc[p] = "Failed" => pc'[p] = "Failed"

\* the summary is there only when every call is Done or Failed
C17_SummaryLast ==
    mainPc = "summary" => \A p \in Packages : pc[p] \in {"Done", "Failed"}

\* C17: provided every await returns, each call goes through its steps in
\* order without coming back to one, ends in Done or Failed, and the summary
\* comes, and comes only once every call has ended.
C17_Progress ==
    /\ [][C17_Order]_vars
    /\ []C17_SummaryLast
    /\ \A p \in Packages : <>(pc[p] \in {"Done", "Failed"})
    /\ <>(mainPc = "summary")

\* the batch is through with one call done after two merged weeks and the
\* other failed
C17_Witness ==
    /\ mainPc = "summary"
    /\ \E p, q \in Packages :
          /\ pc[p] = "Done"
          /\ CountOf(p, "merge") = 2
          /\ pc[q] = "Failed"

\* C18: in the summary, successful is the number of packages whose call
\* persisted its series without failing, failed the number of packages whose
\* call failed, and the two add up to the number of tracked packages.
C18_SummaryCounts ==
    mainPc = "summary" =>
        /\ successful =
             Cardinality({p \in Packages :
                            pc[p] # "Failed" /\ CountOf(p, "write") = 1})
        /\ failed = Cardinality({p \in Packages : pc[p] = "Failed"})
        /\ successful + failed = Cardinality(Packages)

\* a summary of one success and one failure
C18_Witness ==
    /\ mainPc = "summary"
    /\ successful = 1
    /\ failed = 1
    /\ \E p \in Packages : pc[p] = "Done" /\ files[p] # files0[p]

(***************************************************************************)
(* Properties of two invocations in a row (specification SpecRerun).       *)
(***************************************************************************)
\* C19: when the script is invoked again on the unchanged seed folder, a call
\* whose package was persisted by the invocation before persists the very
\* series it found.
C19_RerunIdempotence ==
    \A p \in Packages :
        (/\ earlier # << >>
         /\ earlier[1][p] = "Done"
         /\ Completed(p))
        => files[p] = files0[p]

(***************************************************************************)
(* Order of the merges (specification Spec).                               *)
(***************************************************************************)
\* C20: on a valid series, two observations with different time stamps give
\* the same series whichever of them is merged first.
C20_OrderIndependence ==
    ValidSeries(series) =>
        \A a, b \in Observations :
            a.timestamp # b.timestamp =>
                updateHistoricalData(b.newDownloads, b.timestamp,
                    updateHistoricalData(a.newDownloads, a.timestamp, series))
                = updateHistoricalData(a.newDownloads, a.timestamp,
                    updateHistoricalData(b.newDownloads, b.timestamp, series))

=============================================================================
